---------------------------- MODULE Spec2Model ----------------------------
(* A model of the nodeswarm ThreadPool scheduler (src/src/types.ts, which  *)
(* holds both the type declarations and the ThreadPool class), its         *)
(* PriorityQueue (src/src/priorityQueue.ts) and its MetricsTracker         *)
(* (src/unnamed/part_006).                                                 *)
(*                                                                         *)
(* Every handler of the class is an operator from a state record to a      *)
(* state record, so that a handler that calls another one (restartWorker   *)
(* calls createWorker and processNextJob, ...) is the composition of the   *)
(* operators.  An action is one run of a handler on the single-threaded    *)
(* event loop: it is atomic, as in Node.                                   *)
EXTENDS Integers, Sequences, FiniteSets, TLC

VARIABLES
  config,               \* this.config (fixed by the constructor)
  workers,              \* this.workers: a vector of worker handles
  workerState,          \* the WorkerState object of each handle
  queue,                \* this.queue: priority -> sequence of job ids
  workerJobMap,         \* this.workerJobMap: handle -> job id
  closing,              \* this.closing
  closeResolvers,       \* this.closeResolvers: number of parked close() calls
  healthCheckInterval,  \* TRUE while the setInterval handle is set
  metrics,              \* the MetricsTracker's counters
  jobs,                 \* the Job objects handed to enqueue, by submission id
  futures,              \* the promise returned by each thread() call
  threads,              \* the worker threads behind the handles
  closeReturned         \* number of close() calls whose promise resolved

vars == <<config, workers, workerState, queue, workerJobMap, closing,
          closeResolvers, healthCheckInterval, metrics, jobs, futures,
          threads, closeReturned>>

-----------------------------------------------------------------------------
(* Bounds of the model *)

MaxJobs == 2
MaxWorkerIds == 3
MaxCloseCalls == 1
MaxDispatchJobs == 4
MaxGracefulJobs == 3

(* Program constants *)

HIGH == 0
NORMAL == 1
LOW == 2
cpuCount == 2
maxInactivity == 60000
defaultScaleUpThreshold == 10
defaultScaleDownDelay == 30000

Priority == {HIGH, NORMAL, LOW}

(* Time.  The code reads the clock to stamp lastHeartbeat (createWorker,    *)
(* runJob, onMessage) and reads lastHeartbeat only in checkWorkerHealth,   *)
(* as Date.now() - lastHeartbeat.  The model keeps that difference, the    *)
(* age of the heartbeat, per WorkerState: a stamp sets it to 0 and the     *)
(* passing of time adds to it.  Time passes in steps of the inactivity     *)
(* limit, so that an age is 0, exactly the limit, or beyond it; all ages   *)
(* beyond the limit are alike.                                             *)
TimeUnit == maxInactivity

OldestAge == 2 * TimeUnit

NoJob == 0
NoWorker == 0

-----------------------------------------------------------------------------
(* PriorityQueue *)

PQNew == [p \in Priority |-> <<>>]

\* Variant of enqueue that puts the job at the front of its band (unshift
\* where the source pushes).
PQEnqueueUnshift(q, job, priority) ==
  IF priority \in DOMAIN q
    THEN [q EXCEPT ![priority] = <<job>> \o @]
    ELSE q

PQEnqueue(q, job, priority) ==
  IF priority \in DOMAIN q
    THEN [q EXCEPT ![priority] = Append(@, job)]
    ELSE q

\* The job dequeue() returns (NoJob for undefined): HIGH first, then NORMAL,
\* then LOW.
\* Variant of dequeue that scans the bands in the order NORMAL, HIGH, LOW.
PQFrontNormalFirst(q) ==
  IF Len(q[NORMAL]) > 0 THEN Head(q[NORMAL])
  ELSE IF Len(q[HIGH]) > 0 THEN Head(q[HIGH])
  ELSE IF Len(q[LOW]) > 0 THEN Head(q[LOW])
  ELSE NoJob

PQFront(q) ==
  IF Len(q[HIGH]) > 0 THEN Head(q[HIGH])
  ELSE IF Len(q[NORMAL]) > 0 THEN Head(q[NORMAL])
  ELSE IF Len(q[LOW]) > 0 THEN Head(q[LOW])
  ELSE NoJob

\* The queue after dequeue() (Array.shift on the band it took from).
PQRest(q) ==
  IF Len(q[HIGH]) > 0 THEN [q EXCEPT ![HIGH] = Tail(@)]
  ELSE IF Len(q[NORMAL]) > 0 THEN [q EXCEPT ![NORMAL] = Tail(@)]
  ELSE IF Len(q[LOW]) > 0 THEN [q EXCEPT ![LOW] = Tail(@)]
  ELSE q

PQLength(q) == Len(q[HIGH]) + Len(q[NORMAL]) + Len(q[LOW])

PQIsEmpty(q) == PQLength(q) = 0

-----------------------------------------------------------------------------
(* The state as one record, and the handlers as operators on it *)

St ==
  [config |-> config, workers |-> workers, workerState |-> workerState,
   queue |-> queue, workerJobMap |-> workerJobMap, closing |-> closing,
   closeResolvers |-> closeResolvers,
   healthCheckInterval |-> healthCheckInterval, metrics |-> metrics,
   jobs |-> jobs, futures |-> futures, threads |-> threads,
   closeReturned |-> closeReturned]

Becomes(s) ==
  /\ config' = s.config
  /\ workers' = s.workers
  /\ workerState' = s.workerState
  /\ queue' = s.queue
  /\ workerJobMap' = s.workerJobMap
  /\ closing' = s.closing
  /\ closeResolvers' = s.closeResolvers
  /\ healthCheckInterval' = s.healthCheckInterval
  /\ metrics' = s.metrics
  /\ jobs' = s.jobs
  /\ futures' = s.futures
  /\ threads' = s.threads
  /\ closeReturned' = s.closeReturned

\* Map.delete
MapDelete(m, k) == [x \in DOMAIN m \ {k} |-> m[x]]

\* Map.set
MapSet(m, k, v) == (k :> v) @@ m

\* Map.get, NoJob for undefined
MapGet(m, k) == IF k \in DOMAIN m THEN m[k] ELSE NoJob

\* Array.findIndex over this.workers: the first index holding handle w, 0 for -1
FindIndex(ws, w) ==
  IF \E i \in 1..Len(ws) : ws[i] = w
    THEN CHOOSE i \in 1..Len(ws) : ws[i] = w /\ \A k \in 1..(i - 1) : ws[k] # w
    ELSE 0

-----------------------------------------------------------------------------
(* Worker threads: what is behind a handle.  run is "idle" (waiting for a  *)
(* request), "busy" (executing one) or "dead" (the thread has ended); out  *)
(* is the response posted by the thread and not yet delivered to           *)
(* onMessage; exit is the exit event not yet delivered to onExit.          *)

NewThread == [run |-> "idle", out |-> "none", exit |-> "none"]

\* worker.postMessage(message): a dead thread drops it
PostMessage(s, w) ==
  [s EXCEPT !.threads[w].run = IF @ = "idle" THEN "busy" ELSE @]

\* worker.terminate(): stops the thread, which then emits exit with code 1;
\* a no-op on a thread that has already ended
WorkerTerminate(s, w) ==
  IF s.threads[w].run = "dead"
    THEN s
    ELSE [s EXCEPT !.threads[w].run = "dead", !.threads[w].exit = "nonzero"]

-----------------------------------------------------------------------------
(* MetricsTracker *)

MetricsNew == [completedJobs |-> 0, failedJobs |-> 0, workerRestarts |-> 0]

recordJobComplete(s) == [s EXCEPT !.metrics.completedJobs = @ + 1]

recordJobFailure(s) == [s EXCEPT !.metrics.failedJobs = @ + 1]

recordWorkerRestart(s) == [s EXCEPT !.metrics.workerRestarts = @ + 1]

\* MetricsTracker.reset(), as called by ThreadPool.resetMetrics()
resetMetrics(s) == [s EXCEPT !.metrics = MetricsNew]

-----------------------------------------------------------------------------
(* Job completion sinks *)

\* job.resolve(value) / job.reject(error): a call on the promise's sink.
\* The promise keeps its first outcome; the job counts every call.
Settle(s, job, outcome) ==
  [s EXCEPT !.jobs[job].signals = @ + 1,
            !.futures[job] = IF @ = "pending" THEN outcome ELSE @]

\* clearTimeout(job.timeoutId)
ClearTimeout(s, job) == [s EXCEPT !.jobs[job].timer = NoWorker]

-----------------------------------------------------------------------------
(* ThreadPool *)

createWorker(s) ==
  LET w == Cardinality(DOMAIN s.threads) + 1 IN
  [s EXCEPT !.threads = (w :> NewThread) @@ @,
            !.workerState = (w :> [failureCount |-> 0,
                                   heartbeatAge |-> 0,
                                   isHealthy |-> TRUE]) @@ @,
            !.workers = Append(@, w)]

RECURSIVE initializeWorkers(_, _)
initializeWorkers(s, count) ==
  IF count <= 0 THEN s ELSE initializeWorkers(createWorker(s), count - 1)

\* Variant of findAvailableWorker that drops the !workerJobMap.has(w) test.
findAvailableWorkerIgnoringBindings(s) ==
  LET ok(i) == s.workerState[s.workers[i]].isHealthy
  IN IF \E i \in 1..Len(s.workers) : ok(i)
       THEN s.workers[CHOOSE i \in 1..Len(s.workers) :
                        ok(i) /\ \A k \in 1..(i - 1) : ~ok(k)]
       ELSE NoWorker

findAvailableWorker(s) ==
  LET ok(i) == /\ s.workerState[s.workers[i]].isHealthy
               /\ s.workers[i] \notin DOMAIN s.workerJobMap
  IN IF \E i \in 1..Len(s.workers) : ok(i)
       THEN s.workers[CHOOSE i \in 1..Len(s.workers) :
                        ok(i) /\ \A k \in 1..(i - 1) : ~ok(k)]
       ELSE NoWorker

runJob(s, worker, job) ==
  LET s1 == [s EXCEPT !.workerJobMap = MapSet(@, worker, job)]
      s2 == IF s1.jobs[job].timeout # 0
              THEN [s1 EXCEPT !.jobs[job].timer = worker]
              ELSE s1
      s3 == PostMessage(s2, worker)
  IN IF FindIndex(s3.workers, worker) # 0
       THEN [s3 EXCEPT !.workerState[worker].heartbeatAge = 0]
       ELSE s3

processNextJob(s) ==
  IF ~PQIsEmpty(s.queue)
    THEN LET availableWorker == findAvailableWorker(s) IN
         IF availableWorker # NoWorker
           THEN LET nextJob == PQFront(s.queue) IN
                runJob([s EXCEPT !.queue = PQRest(@)], availableWorker, nextJob)
           ELSE s
    ELSE s

\* Variant of restartWorker that puts the interrupted job back in the queue
\* without clearing its timer.
restartWorkerKeepingTimer(s, index) ==
  LET worker == s.workers[index]
      job == MapGet(s.workerJobMap, worker)
      s1 == WorkerTerminate(s, worker)
      s2 == [s1 EXCEPT !.workerJobMap = MapDelete(@, worker)]
      s3 == IF job # NoJob
              THEN [s2 EXCEPT !.queue = PQEnqueue(@, job, s2.jobs[job].priority)]
              ELSE s2
      s4 == createWorker(s3)
      s5 == [s4 EXCEPT !.workers[index] = s4.workers[Len(s4.workers)]]
  IN processNextJob(recordWorkerRestart(s5))

\* Variant of restartWorker that does not put the interrupted job back in
\* the queue.
restartWorkerDroppingJob(s, index) ==
  LET worker == s.workers[index]
      job == MapGet(s.workerJobMap, worker)
      s1 == WorkerTerminate(s, worker)
      s2 == [s1 EXCEPT !.workerJobMap = MapDelete(@, worker)]
      s3 == IF job # NoJob THEN ClearTimeout(s2, job) ELSE s2
      s4 == createWorker(s3)
      s5 == [s4 EXCEPT !.workers[index] = s4.workers[Len(s4.workers)]]
  IN processNextJob(recordWorkerRestart(s5))

restartWorker(s, index) ==
  LET worker == s.workers[index]
      job == MapGet(s.workerJobMap, worker)
      s1 == WorkerTerminate(s, worker)
      s2 == [s1 EXCEPT !.workerJobMap = MapDelete(@, worker)]
      s3 == IF job # NoJob
              THEN LET c == ClearTimeout(s2, job) IN
                   [c EXCEPT !.queue = PQEnqueue(@, job, c.jobs[job].priority)]
              ELSE s2
      s4 == createWorker(s3)
      s5 == [s4 EXCEPT !.workers[index] = s4.workers[Len(s4.workers)]]
  IN processNextJob(recordWorkerRestart(s5))

\* The loop of checkWorkerHealth from index i (1-based) on; this.workers.length
\* is read again on every round.
RECURSIVE healthLoop(_, _)
healthLoop(s, i) ==
  IF i > Len(s.workers) THEN s
  ELSE LET w == s.workers[i]
           job == MapGet(s.workerJobMap, w)
       IN IF job # NoJob /\ s.workerState[w].heartbeatAge > maxInactivity
            THEN healthLoop(
                   restartWorker([s EXCEPT !.workerState[w].isHealthy = FALSE], i),
                   i + 1)
            ELSE healthLoop(s, i + 1)

checkWorkerHealth(s) == healthLoop(s, 1)

scaleUp(s) ==
  LET newWorkerCount ==
        IF Len(s.workers) + 1 < s.config.maxPoolSize
          THEN Len(s.workers) + 1 ELSE s.config.maxPoolSize
      toAdd == newWorkerCount - Len(s.workers)
  IN IF toAdd > 0 THEN processNextJob(createWorker(s)) ELSE s

\* Variant of enqueue that scales up without the test of the queue length.
enqueueIgnoringThreshold(s, job) ==
  LET availableWorker == findAvailableWorker(s) IN
  IF availableWorker # NoWorker
    THEN runJob(s, availableWorker, job)
    ELSE LET s1 == [s EXCEPT !.queue = PQEnqueue(@, job, s.jobs[job].priority)]
         IN IF /\ s1.config.autoScale
               /\ Len(s1.workers) < s1.config.maxPoolSize
              THEN scaleUp(s1)
              ELSE s1

enqueue(s, job) ==
  LET availableWorker == findAvailableWorker(s) IN
  IF availableWorker # NoWorker
    THEN runJob(s, availableWorker, job)
    ELSE LET s1 == [s EXCEPT !.queue = PQEnqueue(@, job, s.jobs[job].priority)]
         IN IF /\ s1.config.autoScale
               /\ PQLength(s1.queue) >= s1.config.scaleUpThreshold
               /\ Len(s1.workers) < s1.config.maxPoolSize
              THEN scaleUp(s1)
              ELSE s1

cancelJob(s, job) ==
  recordJobFailure(Settle(ClearTimeout(s, job), job, "AbortError"))

handleJobTimeout(s, worker, job) ==
  LET s1 == [s EXCEPT !.workerJobMap = MapDelete(@, worker)]
      s2 == recordJobFailure(Settle(s1, job, "TimeoutError"))
      index == FindIndex(s2.workers, worker)
  IN IF index # 0 THEN restartWorker(s2, index) ELSE s2

\* Variant of onMessage that releases the close() callers as soon as no job
\* is in flight, without the queue.isEmpty test.
onMessageReleasingEarly(s, worker, message) ==
  LET job == MapGet(s.workerJobMap, worker) IN
  IF job = NoJob THEN s
  ELSE
    LET s1 == ClearTimeout(s, job)
        s2 == IF FindIndex(s1.workers, worker) # 0
                THEN [s1 EXCEPT !.workerState[worker].heartbeatAge = 0,
                                !.workerState[worker].failureCount = 0]
                ELSE s1
        s3 == IF message = "error"
                THEN recordJobFailure(Settle(s2, job, "UserError"))
                ELSE recordJobComplete(Settle(s2, job, "value"))
        s4 == [s3 EXCEPT !.workerJobMap = MapDelete(@, worker)]
        s5 == IF /\ s4.closing
                 /\ Cardinality(DOMAIN s4.workerJobMap) = 0
                THEN [s4 EXCEPT !.closeResolvers = 0]
                ELSE s4
    IN processNextJob(s5)

\* Variant of onMessage without the early return for an unbound worker: the
\* message still stamps the worker and pumps the queue.
onMessageFromAnyWorker(s, worker, message) ==
  LET job == MapGet(s.workerJobMap, worker)
      s1 == IF job # NoJob THEN ClearTimeout(s, job) ELSE s
      s2 == IF FindIndex(s1.workers, worker) # 0
              THEN [s1 EXCEPT !.workerState[worker].heartbeatAge = 0,
                              !.workerState[worker].failureCount = 0]
              ELSE s1
      s3 == IF job = NoJob THEN s2
            ELSE IF message = "error"
              THEN recordJobFailure(Settle(s2, job, "UserError"))
              ELSE recordJobComplete(Settle(s2, job, "value"))
      s4 == [s3 EXCEPT !.workerJobMap = MapDelete(@, worker)]
      s5 == IF /\ s4.closing
               /\ PQIsEmpty(s4.queue)
               /\ Cardinality(DOMAIN s4.workerJobMap) = 0
              THEN [s4 EXCEPT !.closeResolvers = 0]
              ELSE s4
  IN processNextJob(s5)

onMessage(s, worker, message) ==
  LET job == MapGet(s.workerJobMap, worker) IN
  IF job = NoJob THEN s
  ELSE
    LET s1 == ClearTimeout(s, job)
        s2 == IF FindIndex(s1.workers, worker) # 0
                THEN [s1 EXCEPT !.workerState[worker].heartbeatAge = 0,
                                !.workerState[worker].failureCount = 0]
                ELSE s1
        s3 == IF message = "error"
                THEN recordJobFailure(Settle(s2, job, "UserError"))
                ELSE recordJobComplete(Settle(s2, job, "value"))
        s4 == [s3 EXCEPT !.workerJobMap = MapDelete(@, worker)]
        s5 == IF /\ s4.closing
                 /\ PQIsEmpty(s4.queue)
                 /\ Cardinality(DOMAIN s4.workerJobMap) = 0
                THEN [s4 EXCEPT !.closeResolvers = 0]
                ELSE s4
    IN processNextJob(s5)

\* Variant of onError that does not restart the worker.
onErrorWithoutRestart(s, worker) ==
  LET s1 == IF FindIndex(s.workers, worker) # 0
              THEN [s EXCEPT !.workerState[worker].failureCount = @ + 1,
                             !.workerState[worker].isHealthy = FALSE]
              ELSE s
      job == MapGet(s1.workerJobMap, worker)
      s2 == IF job # NoJob
              THEN recordJobFailure(
                     Settle(ClearTimeout(s1, job), job, "WorkerCrashError"))
              ELSE s1
  IN [s2 EXCEPT !.workerJobMap = MapDelete(@, worker)]

onError(s, worker) ==
  LET s1 == IF FindIndex(s.workers, worker) # 0
              THEN [s EXCEPT !.workerState[worker].failureCount = @ + 1,
                             !.workerState[worker].isHealthy = FALSE]
              ELSE s
      job == MapGet(s1.workerJobMap, worker)
      s2 == IF job # NoJob
              THEN recordJobFailure(
                     Settle(ClearTimeout(s1, job), job, "WorkerCrashError"))
              ELSE s1
      s3 == [s2 EXCEPT !.workerJobMap = MapDelete(@, worker)]
      index == FindIndex(s3.workers, worker)
  IN IF index # 0 THEN restartWorker(s3, index) ELSE s3

\* Variant of onExit without the test of the code and of this.closing.
onExitAlwaysRestarting(s, worker, code) ==
  LET index == FindIndex(s.workers, worker) IN
  IF index # 0 THEN restartWorker(s, index) ELSE s

onExit(s, worker, code) ==
  IF code # "zero" /\ ~s.closing
    THEN LET index == FindIndex(s.workers, worker) IN
         IF index # 0 THEN restartWorker(s, index) ELSE s
    ELSE s

RECURSIVE terminateAll(_, _)
terminateAll(s, i) ==
  IF i > Len(s.workers) THEN s
  ELSE terminateAll(WorkerTerminate(s, s.workers[i]), i + 1)

\* Variant of terminate() that does not reset this.workers.
terminateKeepingWorkers(s) ==
  [terminateAll([s EXCEPT !.healthCheckInterval = FALSE], 1)
     EXCEPT !.workerJobMap = <<>>]

terminate(s) ==
  [terminateAll([s EXCEPT !.healthCheckInterval = FALSE], 1)
     EXCEPT !.workers = <<>>, !.workerJobMap = <<>>]

\* Variant of close() that does not wait: it runs terminate() at once.
closeWithoutWaiting(s) ==
  LET s1 == [s EXCEPT !.closing = TRUE, !.healthCheckInterval = FALSE]
  IN [terminate(s1) EXCEPT !.closeReturned = @ + 1]

\* close() up to its await: the caller parks in closeResolvers when work is
\* left, and runs terminate() at once otherwise
close(s) ==
  LET s1 == [s EXCEPT !.closing = TRUE, !.healthCheckInterval = FALSE]
  IN IF ~PQIsEmpty(s1.queue) \/ Cardinality(DOMAIN s1.workerJobMap) > 0
       THEN [s1 EXCEPT !.closeResolvers = @ + 1]
       ELSE [terminate(s1) EXCEPT !.closeReturned = @ + 1]

\* The rest of close() for n callers released by onMessage: each runs
\* terminate() and its promise resolves.
RECURSIVE closeResume(_, _)
closeResume(s, n) ==
  IF n <= 0 THEN s
  ELSE closeResume([terminate(s) EXCEPT !.closeReturned = @ + 1], n - 1)

\* `o.field ?? d`: an absent field is undefined
OrDefault(o, field, d) == IF field \in DOMAIN o THEN o[field] ELSE d

NewJob(options) ==
  [priority |-> OrDefault(options, "priority", NORMAL),
   timeout |-> options.timeout,
   signal |-> options.signal # "none",
   aborted |-> FALSE,
   timer |-> NoWorker,
   signals |-> 0]

\* Variant of thread() without the signal.aborted test: the job is enqueued.
threadIgnoringAborted(s, options, valid) ==
  LET id == Len(s.futures) + 1
      reject(kind) == [s EXCEPT !.futures = Append(@, kind)]
  IN IF s.closing THEN reject("ClosingError")
     ELSE IF s.config.strictMode /\ ~valid THEN reject("ValidationError")
     ELSE enqueue([s EXCEPT !.futures = Append(@, "pending"),
                            !.jobs = (id :> NewJob(options)) @@ @],
                  id)

\* Variant of thread() without the strict-mode validation.
threadSkippingValidation(s, options, valid) ==
  LET id == Len(s.futures) + 1
      reject(kind) == [s EXCEPT !.futures = Append(@, kind)]
  IN IF s.closing THEN reject("ClosingError")
     ELSE IF options.signal = "aborted" THEN reject("AbortError")
     ELSE enqueue([s EXCEPT !.futures = Append(@, "pending"),
                            !.jobs = (id :> NewJob(options)) @@ @],
                  id)

\* Variant of thread() that tests the signal before it validates.
threadAbortedFirst(s, options, valid) ==
  LET id == Len(s.futures) + 1
      reject(kind) == [s EXCEPT !.futures = Append(@, kind)]
  IN IF s.closing THEN reject("ClosingError")
     ELSE IF options.signal = "aborted" THEN reject("AbortError")
     ELSE IF s.config.strictMode /\ ~valid THEN reject("ValidationError")
     ELSE enqueue([s EXCEPT !.futures = Append(@, "pending"),
                            !.jobs = (id :> NewJob(options)) @@ @],
                  id)

\* Variant of thread() without the closing check at its head.
threadWhileClosing(s, options, valid) ==
  LET id == Len(s.futures) + 1
      reject(kind) == [s EXCEPT !.futures = Append(@, kind)]
  IN IF s.config.strictMode /\ ~valid THEN reject("ValidationError")
     ELSE IF options.signal = "aborted" THEN reject("AbortError")
     ELSE enqueue([s EXCEPT !.futures = Append(@, "pending"),
                            !.jobs = (id :> NewJob(options)) @@ @],
                  id)

\* thread(options, fn, ...args); valid says whether validateFunction and
\* validateArguments accept fn and args
thread(s, options, valid) ==
  LET id == Len(s.futures) + 1
      reject(kind) == [s EXCEPT !.futures = Append(@, kind)]
  IN IF s.closing THEN reject("ClosingError")
     ELSE IF s.config.strictMode /\ ~valid THEN reject("ValidationError")
     ELSE IF options.signal = "aborted" THEN reject("AbortError")
     ELSE enqueue([s EXCEPT !.futures = Append(@, "pending"),
                            !.jobs = (id :> NewJob(options)) @@ @],
                  id)

\* The constructor: the configuration, then initializeWorkers and
\* startHealthCheck
constructor(c) ==
  LET cfg == [poolSize |-> OrDefault(c, "poolSize", cpuCount),
              minPoolSize |-> OrDefault(c, "minPoolSize", cpuCount),
              maxPoolSize |-> OrDefault(c, "maxPoolSize", cpuCount * 2),
              autoScale |-> OrDefault(c, "autoScale", FALSE),
              scaleUpThreshold |-> OrDefault(c, "scaleUpThreshold",
                                             defaultScaleUpThreshold),
              scaleDownDelay |-> OrDefault(c, "scaleDownDelay",
                                           defaultScaleDownDelay),
              strictMode |-> OrDefault(c, "strictMode", TRUE)]
      s0 == [config |-> cfg, workers |-> <<>>, workerState |-> <<>>,
             queue |-> PQNew, workerJobMap |-> <<>>, closing |-> FALSE,
             closeResolvers |-> 0, healthCheckInterval |-> FALSE,
             metrics |-> MetricsNew, jobs |-> <<>>, futures |-> <<>>,
             threads |-> <<>>, closeReturned |-> 0]
  IN [initializeWorkers(s0, cfg.poolSize) EXCEPT !.healthCheckInterval = TRUE]

-----------------------------------------------------------------------------
(* Inputs *)

\* new ThreadPool(config): the default pool, the one-worker pool of the
\* tests, and an autoscaling pool with strict mode off
ConfigInputs ==
  { <<>>,
    [poolSize |-> 1],
    [poolSize |-> 1, autoScale |-> TRUE, scaleUpThreshold |-> 1,
     strictMode |-> FALSE] }

\* thread(options, ...): timeout 0 stands for no timeout, 100 for any positive
\* one; signal is absent ("none"), not yet aborted ("live") or "aborted"
OptionInputs ==
  { [timeout |-> 0, signal |-> "none"],
    [timeout |-> 0, signal |-> "none", priority |-> HIGH],
    [timeout |-> 0, signal |-> "live", priority |-> LOW],
    [timeout |-> 100, signal |-> "none", priority |-> NORMAL],
    [timeout |-> 100, signal |-> "live"],
    [timeout |-> 0, signal |-> "aborted"] }

\* The calls of the priority test: thread(fn), thread({priority}, fn)
PriorityInputs ==
  { [timeout |-> 0, signal |-> "none"],
    [timeout |-> 0, signal |-> "none", priority |-> HIGH],
    [timeout |-> 0, signal |-> "none", priority |-> LOW] }

WorkerIds == DOMAIN threads

JobIds == DOMAIN jobs

-----------------------------------------------------------------------------
(* Actions: one run of a handler on the event loop *)

\* No handler creates more handles than the model has identities for.
WithinBounds(s) == Cardinality(DOMAIN s.threads) <= MaxWorkerIds

InVector(s, w) == \E i \in 1..Len(s.workers) : s.workers[i] = w

\* What the scheduler can no longer tell apart.  A handle that has left
\* this.workers (restartWorker and terminate() take it out, and call
\* terminate on it) is in no binding and at no index: its WorkerState object
\* is garbage, and its message and exit events run onMessage and onExit to
\* their first return.  The heartbeat of an unbound worker is stamped by
\* runJob before checkWorkerHealth reads it.
Collect(s) ==
  [s EXCEPT
     !.workerState =
       [w \in DOMAIN s.workerState |->
          IF ~InVector(s, w)
            THEN [failureCount |-> 0, heartbeatAge |-> 0, isHealthy |-> FALSE]
          ELSE IF w \notin DOMAIN s.workerJobMap
            THEN [s.workerState[w] EXCEPT !.heartbeatAge = 0]
          ELSE s.workerState[w]],
     !.threads =
       [w \in DOMAIN s.threads |->
          IF InVector(s, w) THEN s.threads[w]
          ELSE [run |-> "dead", out |-> "none", exit |-> "none"]]]

\* One run of a handler: s, the state the handler leaves, is computed once.
Do(s) ==
  \E done \in {s} :
    /\ WithinBounds(done)
    /\ \E kept \in {Collect(done)} : Becomes(kept)

Starts(s) ==
  /\ config = s.config
  /\ workers = s.workers
  /\ workerState = s.workerState
  /\ queue = s.queue
  /\ workerJobMap = s.workerJobMap
  /\ closing = s.closing
  /\ closeResolvers = s.closeResolvers
  /\ healthCheckInterval = s.healthCheckInterval
  /\ metrics = s.metrics
  /\ jobs = s.jobs
  /\ futures = s.futures
  /\ threads = s.threads
  /\ closeReturned = s.closeReturned

Init == \E c \in ConfigInputs : Starts(constructor(c))

Thread ==
  /\ Len(futures) < MaxJobs
  /\ \E options \in OptionInputs, valid \in BOOLEAN :
       Do(thread(St, options, valid))

\* The abort event of a job's signal: the listener added by thread() runs
Abort ==
  \E job \in JobIds :
    /\ jobs[job].signal /\ ~jobs[job].aborted
    /\ Do(cancelJob([St EXCEPT !.jobs[job].aborted = TRUE], job))

\* The timer armed by runJob fires
TimerFires ==
  \E job \in JobIds :
    /\ jobs[job].timer # NoWorker
    /\ Do(handleJobTimeout(ClearTimeout(St, job), jobs[job].timer, job))

\* The worker thread finishes the request and posts { result, error }
WorkerResponds ==
  \E w \in WorkerIds, message \in {"result", "error"} :
    /\ threads[w].run = "busy"
    /\ Do([St EXCEPT !.threads[w].run = "idle", !.threads[w].out = message])

\* The message event of a handle
OnMessage ==
  \E w \in WorkerIds :
    /\ threads[w].out # "none"
    /\ LET s0 == [St EXCEPT !.threads[w].out = "none"]
           s1 == onMessage(s0, w, threads[w].out)
       IN Do(closeResume(s1, s0.closeResolvers - s1.closeResolvers))

\* The worker thread dies of an uncaught error: the error event of its
\* handle; the exit event follows
OnError ==
  \E w \in WorkerIds :
    /\ threads[w].run # "dead"
    /\ Do(onError([St EXCEPT !.threads[w].run = "dead",
                             !.threads[w].exit = "nonzero"], w))

\* The worker thread ends by itself (process.exit in the submitted function,
\* or the host ends it): the exit event of its handle, which Node emits after
\* the thread's pending messages
ThreadExits ==
  \E w \in WorkerIds, code \in {"zero", "nonzero"} :
    /\ threads[w].run # "dead"
    /\ threads[w].out = "none"
    /\ Do(onExit([St EXCEPT !.threads[w].run = "dead"], w, code))

\* The exit event of a handle on which terminate() was called, or whose
\* thread died of an error
OnExit ==
  \E w \in WorkerIds :
    /\ threads[w].exit # "none"
    /\ threads[w].out = "none"
    /\ Do(onExit([St EXCEPT !.threads[w].exit = "none"], w, threads[w].exit))

\* The setInterval callback of startHealthCheck
CheckWorkerHealth ==
  /\ healthCheckInterval
  /\ Do(checkWorkerHealth(St))

\* Every close() call has either returned or is parked in closeResolvers.
Close ==
  /\ closeReturned + closeResolvers < MaxCloseCalls
  /\ Do(close(St))

Terminate == \E s \in {terminate(St)} : Do(s)

\* Time passes: every heartbeat grows older by one unit.
Tick ==
  /\ healthCheckInterval
  /\ \E w \in DOMAIN workerJobMap : workerState[w].heartbeatAge < OldestAge
  /\ Do([St EXCEPT !.workerState =
           [w \in DOMAIN @ |->
              [workerState[w] EXCEPT !.heartbeatAge =
                 IF @ < OldestAge THEN @ + TimeUnit ELSE @]]])

Next ==
  \/ Thread
  \/ Abort
  \/ TimerFires
  \/ WorkerResponds
  \/ OnMessage
  \/ OnError
  \/ ThreadExits
  \/ OnExit
  \/ CheckWorkerHealth
  \/ Close
  \/ Terminate
  \/ Tick

Spec == Init /\ [][Next]_vars

-----------------------------------------------------------------------------
(* Dispatch order: the one-worker pool of the priority test under more     *)
(* submissions, with worker responses and worker exits (which restart the  *)
(* worker and put its job back), and no timeout, signal, close or          *)
(* terminate.                                                              *)

InitDispatch == Starts(constructor([poolSize |-> 1]))

Submit ==
  /\ Len(futures) < MaxDispatchJobs
  /\ \E options \in PriorityInputs : Do(thread(St, options, TRUE))

NextDispatch ==
  \/ Submit
  \/ WorkerResponds
  \/ OnMessage
  \/ ThreadExits

SpecDispatch == InitDispatch /\ [][NextDispatch]_vars

(* The dispatch scenario under the fairness the scheduler relies on: a     *)
(* worker that was sent a job answers, and a posted answer is handled.     *)
(* A worker may instead die with a non-zero exit code at any time.         *)
ThreadCrashes ==
  \E w \in WorkerIds :
    /\ threads[w].run # "dead"
    /\ threads[w].out = "none"
    /\ Do(onExit([St EXCEPT !.threads[w].run = "dead"], w, "nonzero"))

NextFair ==
  \/ Submit
  \/ WorkerResponds
  \/ OnMessage
  \/ ThreadCrashes

\* OnMessage is enabled exactly when a handle has a message posted.
MessagePosted == \E w \in WorkerIds : threads[w].out # "none"

\* Weak fairness of WorkerResponds and of OnMessage, the latter with its
\* enabling condition written out.
FairSpec ==
  /\ InitDispatch
  /\ [][NextFair]_vars
  /\ WF_vars(WorkerResponds)
  /\ ([]<>(~MessagePosted) \/ []<><<OnMessage>>_vars)

-----------------------------------------------------------------------------
(* Graceful shutdown: any of the three pools takes submissions and a       *)
(* close() call, every worker answers its requests and every answer is     *)
(* handled; no worker fails, no timer or signal fires and terminate() is   *)
(* not called.                                                             *)

SubmitGraceful ==
  /\ Len(futures) < MaxGracefulJobs
  /\ \E options \in PriorityInputs : Do(thread(St, options, TRUE))

NextGraceful ==
  \/ SubmitGraceful
  \/ Close
  \/ WorkerResponds
  \/ OnMessage

GracefulSpec ==
  /\ Init
  /\ [][NextGraceful]_vars
  /\ WF_vars(WorkerResponds)
  /\ ([]<>(~MessagePosted) \/ []<><<OnMessage>>_vars)

-----------------------------------------------------------------------------
(* Timeouts: the one-worker pool takes jobs with and without a timeout;    *)
(* timers fire, workers answer and answers are handled.  The exit event of *)
(* a worker terminated by the timeout path is not yet delivered: it comes  *)
(* in a later turn of the event loop than the timer and than the           *)
(* submissions made in between.                                            *)

TimeoutInputs ==
  { [timeout |-> 0, signal |-> "none"],
    [timeout |-> 100, signal |-> "none"] }

SubmitTimed ==
  /\ Len(futures) < MaxDispatchJobs
  /\ \E options \in TimeoutInputs : Do(thread(St, options, TRUE))

NextTimeout ==
  \/ SubmitTimed
  \/ TimerFires
  \/ WorkerResponds
  \/ OnMessage

SpecTimeout == InitDispatch /\ [][NextTimeout]_vars

-----------------------------------------------------------------------------
(* Cancellation of waiting jobs: the one-worker pool takes jobs with and   *)
(* without a cancel signal; signals fire, the worker answers and answers   *)
(* are handled.  No worker is restarted, so a job that is in the queue has *)
(* been there since its submission.                                        *)

CancelInputs ==
  { [timeout |-> 0, signal |-> "none"],
    [timeout |-> 0, signal |-> "live"],
    [timeout |-> 0, signal |-> "live", priority |-> HIGH] }

SubmitCancellable ==
  /\ Len(futures) < MaxDispatchJobs
  /\ \E options \in CancelInputs : Do(thread(St, options, TRUE))

NextCancel ==
  \/ SubmitCancellable
  \/ Abort
  \/ WorkerResponds
  \/ OnMessage

SpecCancel == InitDispatch /\ [][NextCancel]_vars

-----------------------------------------------------------------------------
(* Autoscaling: one-worker pools that scale up at two queued jobs to at    *)
(* most two workers, that scale up at one queued job to at most three, and *)
(* that do not scale; they take submissions, workers answer and answers    *)
(* are handled.                                                            *)

ScaleConfigs ==
  { [poolSize |-> 1, maxPoolSize |-> 2, autoScale |-> TRUE,
     scaleUpThreshold |-> 2],
    [poolSize |-> 1, maxPoolSize |-> 3, autoScale |-> TRUE,
     scaleUpThreshold |-> 1],
    [poolSize |-> 1, maxPoolSize |-> 2, scaleUpThreshold |-> 1] }

InitScale == \E c \in ScaleConfigs : Starts(constructor(c))

SubmitScale ==
  /\ Len(futures) < MaxDispatchJobs
  /\ \E options \in PriorityInputs, valid \in BOOLEAN :
       Do(thread(St, options, valid))

NextScale ==
  \/ SubmitScale
  \/ WorkerResponds
  \/ OnMessage

SpecScale == InitScale /\ [][NextScale]_vars

-----------------------------------------------------------------------------
(* Vocabulary of the properties *)

Range(f) == {f[x] : x \in DOMAIN f}

\* How often job j occurs in band p of queue q
RECURSIVE Occurrences(_, _)
Occurrences(seq, j) ==
  IF seq = <<>> THEN 0
  ELSE (IF Head(seq) = j THEN 1 ELSE 0) + Occurrences(Tail(seq), j)

QueueCount(q, j) ==
  Occurrences(q[HIGH], j) + Occurrences(q[NORMAL], j) + Occurrences(q[LOW], j)

BoundTo(m, j) == {w \in DOMAIN m : m[w] = j}

-----------------------------------------------------------------------------
(* C1: the scheduler calls a job's completion sink (job.resolve or         *)
(* job.reject) at most once, across worker response, timeout, abort,       *)
(* worker error, worker exit, health check and terminate().                *)
C1Claim == \A j \in DOMAIN jobs : jobs[j].signals <= 1

C3Injective ==
  \A w1, w2 \in DOMAIN workerJobMap :
    w1 # w2 => workerJobMap[w1] # workerJobMap[w2]

C3NoOverwrite ==
  \A w \in DOMAIN workerJobMap :
    (w \in DOMAIN workerJobMap' /\ workerJobMap'[w] # workerJobMap[w])
      => \/ jobs'[workerJobMap[w]].signals > jobs[workerJobMap[w]].signals
         \/ QueueCount(queue', workerJobMap[w]) > 0

C3Thm == [](C3Injective) /\ [][C3NoOverwrite]_vars

\* Two handles are bound at once in a pool that has restarted a worker.
C3Witness ==
  /\ Cardinality(DOMAIN workerJobMap) = 2
  /\ metrics.workerRestarts > 0

(* C4: every job whose future is pending is in exactly one place: once in  *)
(* the queue, or bound to exactly one worker handle.                       *)
C4Claim ==
  \A j \in DOMAIN jobs :
    futures[j] = "pending"
      => QueueCount(queue, j) + Cardinality(BoundTo(workerJobMap, j)) = 1

(* C5: while the pool is not closing, size is at least minPoolSize and at  *)
(* most maxPoolSize.                                                       *)
C5Claim ==
  ~closing
    => /\ config.minPoolSize <= Len(workers)
       /\ Len(workers) <= config.maxPoolSize

(* C6: a restart (every step that counts a worker restart) leaves the      *)
(* length of the workers vector as it was.                                 *)
C6Claim ==
  [][metrics'.workerRestarts > metrics.workerRestarts
       => Len(workers') = Len(workers)]_vars

(* C7: dequeue() returns and removes the oldest job of the highest         *)
(* non-empty band (a HIGH job whenever one is queued), returns undefined   *)
(* only when all bands are empty, and leaves every other job in place.     *)
C7Top(q) ==
  CHOOSE p \in Priority :
    /\ q[p] # <<>>
    /\ \A r \in Priority : r < p => q[r] = <<>>

C7Thm ==
  IF \A p \in Priority : queue[p] = <<>>
    THEN PQFront(queue) = NoJob /\ PQRest(queue) = queue
    ELSE /\ PQFront(queue) # NoJob
         /\ PQFront(queue) = queue[C7Top(queue)][1]
         /\ queue[HIGH] # <<>> => jobs[PQFront(queue)].priority = HIGH
         /\ \A p \in Priority :
              PQRest(queue)[p] =
                IF p = C7Top(queue)
                  THEN SubSeq(queue[p], 2, Len(queue[p]))
                  ELSE queue[p]

\* LOW, HIGH and NORMAL were queued in that order behind a running job, and
\* the dequeue that followed took the HIGH one.
C7Witness ==
  /\ 4 \in DOMAIN jobs
  /\ jobs[2].priority = LOW /\ jobs[3].priority = HIGH
  /\ jobs[4].priority = NORMAL
  /\ queue = [PQNew EXCEPT ![LOW] = <<2>>, ![NORMAL] = <<4>>]
  /\ 3 \in Range(workerJobMap)

(* C8: FIFO within a band: a step takes at most the front job out of a     *)
(* band and starts it on a worker, and the jobs that stay keep their       *)
(* order ahead of every job the step adds.                                 *)
C8Fifo ==
  \A p \in Priority :
    \E k \in {0, 1} :
      /\ k <= Len(queue[p])
      /\ LET rest == SubSeq(queue[p], k + 1, Len(queue[p])) IN
           /\ Len(queue'[p]) >= Len(rest)
           /\ SubSeq(queue'[p], 1, Len(rest)) = rest
      /\ k = 1 => queue[p][1] \in Range(workerJobMap')

C8Thm == [][C8Fifo]_vars

\* Two NORMAL jobs waited behind a running one; the earlier one has been
\* started and the later one still waits.
C8Witness ==
  /\ 3 \in DOMAIN jobs
  /\ jobs[2].priority = NORMAL /\ jobs[3].priority = NORMAL
  /\ futures[1] # "pending"
  /\ 2 \in Range(workerJobMap)
  /\ queue[NORMAL] = <<3>>

(* C9: whenever a job is started on a worker, no job of strictly higher    *)
(* priority is waiting in the queue.                                       *)
C9Claim ==
  [][\A j \in DOMAIN jobs' :
       (j \in Range(workerJobMap') /\ j \notin Range(workerJobMap))
         => \A p \in Priority : p < jobs'[j].priority => queue'[p] = <<>>]_vars

(* C10: once closing is set it stays set, and every thread() call made     *)
(* while closing is rejected with the closing error, creates no job and    *)
(* leaves the queue, the bindings, the workers and the metrics as they     *)
(* were.                                                                   *)
C10Step ==
  closing
    => /\ closing'
       /\ Len(futures') > Len(futures)
            => /\ futures' = Append(futures, "ClosingError")
               /\ UNCHANGED <<jobs, queue, workerJobMap, workers, metrics>>

C10Thm == [][C10Step]_vars

\* A thread() call made after close() has been rejected while an earlier
\* job is still in flight.
C10Witness ==
  /\ closing
  /\ Len(futures) = 2
  /\ futures[1] = "pending" /\ futures[2] = "ClosingError"
  /\ 1 \in Range(workerJobMap)

(* C11: whenever a close() call resolves, the queue is empty, the          *)
(* worker-to-job map is empty and the workers vector is empty.             *)
C11Thm ==
  [][closeReturned' > closeReturned
       => /\ PQIsEmpty(queue')
          /\ workerJobMap' = <<>>
          /\ workers' = <<>>]_vars

\* A close() call has resolved in a pool that ran two jobs to their answers,
\* the second of which had waited in the queue.
C11Witness ==
  /\ closeReturned = 1
  /\ Len(workers) = 0
  /\ Len(futures) = 2
  /\ futures[1] = "value" /\ futures[2] = "value"
  /\ config.poolSize = 1
  /\ metrics.workerRestarts = 0

(* C12: close() is graceful: while a job accepted before close() is        *)
(* pending, no worker of the pool has been terminated, and every such job  *)
(* is still dispatched and gets the answer of its worker.                  *)
C12WorkersKept ==
  (\E j \in DOMAIN jobs : futures[j] = "pending")
    => /\ workers # <<>>
       /\ \A i \in 1..Len(workers) : threads[workers[i]].run # "dead"

C12Thm ==
  /\ [](C12WorkersKept)
  /\ \A j \in 1..MaxGracefulJobs :
       (j \in DOMAIN jobs)
         ~> (j \in DOMAIN jobs /\ futures[j] \in {"value", "UserError"})

\* close() is parked; the job that waited in the queue when it was called
\* has been dispatched after the first job's answer was delivered.
C12Witness ==
  /\ closing /\ closeResolvers = 1
  /\ Len(workers) = 1
  /\ Len(futures) >= 2
  /\ futures[1] = "value"
  /\ 2 \in Range(workerJobMap)

(* C13: close() eventually resolves: once every job has finished, by       *)
(* whatever path, and the pool is drained (queue empty, no job in flight), *)
(* no close() caller is left parked.  While the pool is closing no new     *)
(* binding can arise, and only onMessage on a bound worker releases        *)
(* callers, so a caller parked in such a state stays parked forever.       *)
C13Claim ==
  closeResolvers > 0
    => \/ ~PQIsEmpty(queue)
       \/ workerJobMap # <<>>
       \/ \E j \in DOMAIN jobs : futures[j] = "pending"

\* The number of times this.workers.forEach((ws) => ws.worker.terminate())
\* calls terminate on handle w: once per element of the vector that holds it
terminateCalls(s, w) == Occurrences(s.workers, w)

(* C14: from any reachable state terminate() calls terminate on every      *)
(* worker handle of the pool exactly once, stops the health check, and     *)
(* leaves the workers vector and the worker-to-job map empty.              *)
C14Effect ==
  LET after == terminate(St) IN
  /\ \A w \in Range(workers) : after.threads[w].run = "dead"
  /\ after.healthCheckInterval = FALSE
  /\ after.workers = <<>>
  /\ after.workerJobMap = <<>>

C14Claim ==
  /\ \A w \in Range(workers) : terminateCalls(St, w) = 1
  /\ C14Effect

(* C15: terminate() clears the queue: from any state in which jobs wait    *)
(* in the priority queue, the queue is empty after terminate().            *)
C15Claim == ~PQIsEmpty(queue) => PQIsEmpty(terminate(St).queue)

(* C16: terminate() is idempotent: from any reachable state a second       *)
(* terminate() right after the first leaves the state the first one left,  *)
(* and calls terminate on no worker.                                       *)
C16Thm ==
  LET once == terminate(St) IN
  /\ terminate(once) = once
  /\ \A w \in DOMAIN threads : terminateCalls(once, w) = 0

\* terminate() was called while a close() caller was parked behind a job.
C16Witness ==
  /\ closing /\ closeResolvers = 1
  /\ workers = <<>>
  /\ \E j \in DOMAIN jobs : futures[j] = "pending"

\* The job's timer is armed and the job is bound to the worker the timer
\* was armed for.
TimerArmedOnBound(j) ==
  /\ jobs[j].timer # NoWorker
  /\ MapGet(workerJobMap, jobs[j].timer) = j

(* C17: when the timer of a job bound to a worker fires, the job's future  *)
(* is rejected with the timeout error, the binding of the worker is        *)
(* removed, failedJobs grows by exactly one, and the worker is terminated  *)
(* and a fresh handle takes its index.                                     *)
C17Restarted(j) ==
  LET worker == jobs[j].timer
      after == handleJobTimeout(ClearTimeout(St, j), worker, j)
      index == FindIndex(workers, worker)
  IN /\ MapGet(after.workerJobMap, worker) = NoJob
     /\ after.metrics.failedJobs = metrics.failedJobs + 1
     /\ after.threads[worker].run = "dead"
     /\ index # 0
     /\ after.workers[index] \notin DOMAIN threads
     /\ after.threads[after.workers[index]].run # "dead"
     /\ after.workerState[after.workers[index]].isHealthy

C17Rejected(j) ==
  LET worker == jobs[j].timer
      after == handleJobTimeout(ClearTimeout(St, j), worker, j)
  IN after.futures[j] = "TimeoutError"

C17Claim ==
  \A j \in DOMAIN jobs :
    TimerArmedOnBound(j) => C17Rejected(j) /\ C17Restarted(j)

(* C18: the pool stays operational after timeouts: after any number of     *)
(* timeout kills, every job started on a worker is started on a live       *)
(* worker, one on which terminate has not been called.                     *)
C18Claim ==
  [][\A w \in DOMAIN workerJobMap' :
       (MapGet(workerJobMap, w) # workerJobMap'[w])
         => threads'[w].run # "dead"]_vars

\* thread(options, ...) calls whose signal is already aborted
AbortedInputs ==
  { [timeout |-> 0, signal |-> "aborted"],
    [timeout |-> 100, signal |-> "aborted", priority |-> HIGH] }

\* The call is rejected with AbortError and builds no job: nothing is
\* queued, bound or sent to a worker.
C19Rejected(options, valid) ==
  LET after == thread(St, options, valid) IN
  /\ after.futures = Append(futures, "AbortError")
  /\ after.jobs = jobs
  /\ after.queue = queue
  /\ after.workerJobMap = workerJobMap
  /\ after.threads = threads

(* C19, as written: thread() on a non-closing pool with a signal that is   *)
(* already aborted rejects with AbortError at once, and the job is never   *)
(* queued, bound or sent to a worker.                                      *)
C19Claim ==
  ~closing
    => \A options \in AbortedInputs, valid \in BOOLEAN :
         C19Rejected(options, valid)

(* C19, amended: the same, for calls whose function and arguments pass     *)
(* validation or whose pool has strict mode off; validation comes before   *)
(* the test of the signal.                                                 *)
C19Thm ==
  ~closing
    => \A options \in AbortedInputs, valid \in BOOLEAN :
         (valid \/ ~config.strictMode) => C19Rejected(options, valid)

\* A call with an aborted signal was rejected without a job, while another
\* job was in flight.
C19Witness ==
  /\ ~closing
  /\ \E j \in DOMAIN futures : futures[j] = "AbortError" /\ j \notin DOMAIN jobs
  /\ workerJobMap # <<>>

(* C20: when the cancel signal of a job bound to a worker fires, the       *)
(* job's future is rejected with the cancellation error, the worker is     *)
(* unbound, and the worker is terminated and replaced in place by a fresh  *)
(* handle, as on the timeout path.                                         *)
C20Claim ==
  \A j \in DOMAIN jobs, w \in DOMAIN workerJobMap :
    (jobs[j].signal /\ ~jobs[j].aborted /\ workerJobMap[w] = j)
      => LET after == cancelJob([St EXCEPT !.jobs[j].aborted = TRUE], j)
             index == FindIndex(workers, w)
         IN /\ after.futures[j] = "AbortError"
            /\ MapGet(after.workerJobMap, w) # j
            /\ after.threads[w].run = "dead"
            /\ index # 0
            /\ after.workers[index] \notin DOMAIN threads


(* C21: a job whose cancel signal fired while it waited in the queue has   *)
(* its future rejected with the cancellation error, and is never bound to  *)
(* a worker afterwards: it has left the queue, or the dispatch step skips  *)
(* it.                                                                     *)
C21Claim ==
  /\ [](\A j \in DOMAIN jobs :
          (jobs[j].aborted /\ QueueCount(queue, j) > 0)
            => futures[j] = "AbortError")
  /\ [][\A j \in DOMAIN jobs :
          (jobs[j].aborted /\ QueueCount(queue, j) > 0)
            => j \notin Range(workerJobMap')]_vars

(* C22: completedJobs + failedJobs equals the number of thread() calls     *)
(* whose future has been completed, resolved or rejected for whatever      *)
(* reason (validation, closing and cancellation rejections included).      *)
(* No step of the model calls resetMetrics().                              *)
C22Claim ==
  metrics.completedJobs + metrics.failedJobs
    = Cardinality({j \in DOMAIN futures : futures[j] # "pending"})

\* The state in which the error event of handle w is handled: its thread
\* has died of an uncaught error.
Crashed(w) ==
  [St EXCEPT !.threads[w].run = "dead", !.threads[w].exit = "nonzero"]

\* The job bound to w is rejected with the crash cause and counted once.
C23Rejected(w) ==
  LET after == onError(Crashed(w), w) IN
  /\ after.futures[workerJobMap[w]] = "WorkerCrashError"
  /\ after.metrics.failedJobs = metrics.failedJobs + 1
  /\ after.metrics.completedJobs = metrics.completedJobs

\* No other job is rejected or lost.
C23OthersKept(w) ==
  LET after == onError(Crashed(w), w) IN
  \A k \in DOMAIN jobs \ {workerJobMap[w]} :
    /\ after.futures[k] = futures[k]
    /\ jobs[k].signals = after.jobs[k].signals
    /\ QueueCount(queue, k) + Cardinality(BoundTo(workerJobMap, k)) > 0
         => QueueCount(after.queue, k)
              + Cardinality(BoundTo(after.workerJobMap, k)) > 0

\* The crashed handle is terminated and a fresh handle has taken its place.
C23Replaced(w) ==
  LET after == onError(Crashed(w), w)
      index == FindIndex(workers, w)
  IN /\ after.threads[w].run = "dead"
     /\ index # 0
     /\ after.workers[index] \notin DOMAIN threads
     /\ after.threads[after.workers[index]].run # "dead"

\* The job at the front of the queue, if any, is dispatched to the
\* replacement.
C23Dispatched(w) ==
  LET after == onError(Crashed(w), w)
      index == FindIndex(workers, w)
  IN ~PQIsEmpty(queue)
       => /\ index # 0
          /\ MapGet(after.workerJobMap, after.workers[index]) = PQFront(queue)
          /\ after.threads[after.workers[index]].run = "busy"

(* C23: when a worker raises an error event while bound to a job, exactly  *)
(* that job's future is rejected with the crash cause and failedJobs grows *)
(* by one; no other job is rejected or lost; the crashed handle is         *)
(* terminated and replaced, and the queue is dispatched to the             *)
(* replacement.                                                            *)
C23Claim ==
  \A w \in DOMAIN workerJobMap :
    threads[w].run # "dead"
      => /\ C23Rejected(w)
         /\ C23OthersKept(w)
         /\ C23Replaced(w)
         /\ C23Dispatched(w)

\* thread(options, fn, ...args) with a function or arguments the validator
\* refuses, on a strict-mode pool: the returned future is rejected, and the
\* call builds no job and leaves the rest of the pool as it was.
C24Refused(options) ==
  LET after == thread(St, options, FALSE) IN
  /\ Len(after.futures) = Len(futures) + 1
  /\ after.futures[Len(after.futures)] \in {"ValidationError", "ClosingError"}
  /\ after = [St EXCEPT !.futures = after.futures]

\* The same call on a pool with strict mode off: the job is built with a
\* pending future and handed to the scheduler, which binds it to a worker
\* and posts it, or queues it; the call does what it does for a function
\* the validator accepts.
C24Accepted(options) ==
  LET after == thread(St, options, FALSE)
      id == Len(futures) + 1
  IN /\ id \in DOMAIN after.jobs
     /\ after.futures = Append(futures, "pending")
     /\ QueueCount(after.queue, id)
          + Cardinality(BoundTo(after.workerJobMap, id)) = 1
     /\ \A w \in BoundTo(after.workerJobMap, id) :
          after.threads[w].run # "idle"
     /\ after = thread(St, options, TRUE)

Answered(w) == [St EXCEPT !.threads[w].run = "idle"]

(* C25: a worker response for a bound job that carries an error payload    *)
(* rejects the job's future and adds one to failedJobs, with completedJobs  *)
(* unchanged; a response without one resolves the future with the result    *)
(* and adds one to completedJobs, with failedJobs unchanged; so a job that  *)
(* resolves right after resetMetrics() leaves completedJobs 1, failedJobs 0.*)
C25Claim ==
  \A w \in DOMAIN workerJobMap :
    threads[w].run = "busy"
      => LET j == workerJobMap[w]
             failed == onMessage(Answered(w), w, "error")
             done == onMessage(Answered(w), w, "result")
             fresh == onMessage(resetMetrics(Answered(w)), w, "result")
         IN /\ failed.futures[j] = "UserError"
            /\ failed.metrics.failedJobs = metrics.failedJobs + 1
            /\ failed.metrics.completedJobs = metrics.completedJobs
            /\ done.futures[j] = "value"
            /\ done.metrics.completedJobs = metrics.completedJobs + 1
            /\ done.metrics.failedJobs = metrics.failedJobs
            /\ fresh.metrics.completedJobs = 1
            /\ fresh.metrics.failedJobs = 0

\* The state in which the exit event of handle w is handled: its thread has
\* ended by itself.
Exited(w) == [St EXCEPT !.threads[w].run = "dead"]

(* C26: when a worker bound to a job emits an exit event with a non-zero   *)
(* code while the pool is not closing, the job's future is rejected with a *)
(* crash failure, a failure is counted, and the worker is restarted in     *)
(* place; the job is not put back to be run again.                         *)
C26Claim ==
  \A w \in DOMAIN workerJobMap :
    (~closing /\ threads[w].run # "dead")
      => LET j == workerJobMap[w]
             after == onExit(Exited(w), w, "nonzero")
             index == FindIndex(workers, w)
         IN /\ after.futures[j] = "WorkerCrashError"
            /\ after.metrics.failedJobs = metrics.failedJobs + 1
            /\ QueueCount(after.queue, j) = 0
            /\ j \notin Range(after.workerJobMap)
            /\ index # 0
            /\ after.workers[index] \notin DOMAIN threads

(* C27: an exit event with code zero, or any exit event received while the *)
(* pool is closing, is ignored: onExit leaves the workers vector, the      *)
(* worker-to-job map, the queue and the metrics counters as they were.     *)
C27Thm ==
  \A w \in DOMAIN threads, code \in {"zero", "nonzero"} :
    (code = "zero" \/ closing)
      => LET after == onExit(Exited(w), w, code) IN
         /\ after.workers = workers
         /\ after.workerJobMap = workerJobMap
         /\ after.queue = queue
         /\ after.metrics = metrics

\* A worker has exited with code zero while bound to a job on a pool that
\* is not closing: the exit event was handled and the handle is still in
\* the vector and still bound, its job pending.
C27Witness ==
  /\ ~closing
  /\ \E w \in DOMAIN workerJobMap :
       /\ InVector(St, w)
       /\ threads[w].run = "dead" /\ threads[w].exit = "none"
       /\ futures[workerJobMap[w]] = "pending"
       /\ metrics.workerRestarts = 0

\* The health check evicts handle w: it is bound to a job and its last
\* heartbeat is older than the inactivity limit.
Stale(w) ==
  /\ InVector(St, w)
  /\ w \in DOMAIN workerJobMap
  /\ workerState[w].heartbeatAge > maxInactivity

\* The jobs bound to the handles the health check evicts
EvictedJobs == {workerJobMap[w] : w \in {x \in DOMAIN workerJobMap : Stale(x)}}

\* An evicted worker is terminated and a fresh handle stands at its index;
\* its job is in the queue, in its own band, or bound again to another
\* worker, and is timed only on the worker it is bound to.
C28Evicted(w) ==
  LET after == checkWorkerHealth(St)
      j == workerJobMap[w]
      index == FindIndex(workers, w)
  IN /\ after.threads[w].run = "dead"
     /\ after.workers[index] \notin DOMAIN threads
     /\ after.threads[after.workers[index]].run # "dead"
     /\ QueueCount(after.queue, j)
          + Cardinality(BoundTo(after.workerJobMap, j)) = 1
     /\ QueueCount(after.queue, j) = Occurrences(after.queue[jobs[j].priority], j)
     /\ \A x \in BoundTo(after.workerJobMap, j) : x # w
     /\ after.jobs[j].timer # NoWorker
          => /\ after.jobs[j].timer # w
             /\ MapGet(after.workerJobMap, after.jobs[j].timer) = j

\* Every band of the queue is what was left of it followed by evicted jobs:
\* an evicted job stands behind every job that waited before the check.
C28AtTail ==
  LET after == checkWorkerHealth(St) IN
  \A p \in Priority :
    \E k \in 0..Len(queue[p]), n \in 0..Len(after.queue[p]) :
      /\ SubSeq(after.queue[p], 1, n) = SubSeq(queue[p], k + 1, Len(queue[p]))
      /\ \A i \in (n + 1)..Len(after.queue[p]) :
           after.queue[p][i] \in EvictedJobs

\* A worker that is idle, or bound with a recent heartbeat, is left as it is.
C28Untouched(w) ==
  LET after == checkWorkerHealth(St) IN
  /\ \A i \in 1..Len(workers) : workers[i] = w => after.workers[i] = w
  /\ after.workerState[w].isHealthy = workerState[w].isHealthy
  /\ threads[w].run # "dead" => after.threads[w].run # "dead"
  /\ w \in DOMAIN workerJobMap
       => MapGet(after.workerJobMap, w) = workerJobMap[w]

(* C28: the health check terminates and replaces every worker that is      *)
(* bound to a job and whose last heartbeat is older than the inactivity    *)
(* limit; it completes no future, so the job of such a worker stays        *)
(* pending; the job's timer is disarmed and the job is appended at the     *)
(* tail of its own priority band, from where it is dispatched again; idle  *)
(* workers and workers with a recent heartbeat are left untouched.         *)
C28Thm ==
  LET after == checkWorkerHealth(St) IN
  /\ after.futures = futures
  /\ after.metrics.failedJobs = metrics.failedJobs
  /\ C28AtTail
  /\ \A w \in Range(workers) :
       IF Stale(w) THEN C28Evicted(w) ELSE C28Untouched(w)

\* The heartbeat of the pool's only worker is older than the limit while
\* it is bound to a job with a timeout and a second job waits: the job
\* waits again in the queue after the health check has run.
C28Witness ==
  /\ healthCheckInterval
  /\ Len(workers) = 1
  /\ Stale(workers[1])
  /\ jobs[workerJobMap[workers[1]]].timer = workers[1]
  /\ ~PQIsEmpty(queue)
  /\ QueueCount(checkWorkerHealth(St).queue, workerJobMap[workers[1]]) = 1

\* thread(options, ...) reaches enqueue, which finds no idle healthy worker
\* and queues the job, and the scale-up test of enqueue passes.
C29ScalesUp(options, valid) ==
  /\ ~closing
  /\ valid \/ ~config.strictMode
  /\ options.signal # "aborted"
  /\ findAvailableWorker(St) = NoWorker
  /\ config.autoScale
  /\ PQLength(queue) + 1 >= config.scaleUpThreshold
  /\ Len(workers) < config.maxPoolSize

\* Exactly one worker is added, and exactly one job, the one at the front
\* of the queue, is taken from the queue and sent to it.
C29OneAdded(options, valid) ==
  LET after == thread(St, options, valid)
      id == Len(futures) + 1
      queued == PQEnqueue(queue, id, OrDefault(options, "priority", NORMAL))
      added == after.workers[Len(after.workers)]
  IN /\ Len(after.workers) = Len(workers) + 1
     /\ SubSeq(after.workers, 1, Len(workers)) = workers
     /\ added \notin DOMAIN threads
     /\ after.workerJobMap = MapSet(workerJobMap, added, PQFront(queued))
     /\ after.queue = PQRest(queued)
     /\ after.threads[added].run = "busy"

(* C29: a thread() call adds a worker only when its job was enqueued (no   *)
(* idle healthy worker), autoScale is on, the queue length after the       *)
(* enqueue is at least scaleUpThreshold and size < maxPoolSize; then       *)
(* exactly one worker is added and exactly one queued job is dispatched to *)
(* it; with autoScale off no thread() call changes size.                   *)
C29Thm ==
  \A options \in OptionInputs, valid \in BOOLEAN :
    LET after == thread(St, options, valid) IN
    /\ IF C29ScalesUp(options, valid)
         THEN C29OneAdded(options, valid)
         ELSE after.workers = workers
    /\ ~config.autoScale => Len(after.workers) = Len(workers)

\* A pool that scales up at two queued jobs to at most two workers has
\* taken four jobs: the third made it grow, the fourth did not.
C29Witness ==
  /\ config.autoScale /\ config.scaleUpThreshold = 2
  /\ Len(workers) = 2 /\ config.maxPoolSize = 2
  /\ Cardinality(DOMAIN workerJobMap) = 2
  /\ PQLength(queue) = 2
  /\ Len(futures) = 4

(* C30: every armed timeout timer is cancelled on every completion path:   *)
(* a job whose timer is armed has a pending future and is bound to the     *)
(* worker the timer was armed for, so the timeout path never runs for a    *)
(* job that is completed or no longer bound to that worker.                *)
C30Claim ==
  \A j \in DOMAIN jobs :
    jobs[j].timer # NoWorker
      => /\ futures[j] = "pending"
         /\ MapGet(workerJobMap, jobs[j].timer) = j

(* C31: the cancel listener is deregistered at completion: when the cancel *)
(* signal of a job fires after the job's future has been completed, the    *)
(* event changes nothing: failedJobs, completedJobs, the queue, the        *)
(* bindings and the workers are as they were.                              *)
C31Claim ==
  \A j \in DOMAIN jobs :
    (jobs[j].signal /\ ~jobs[j].aborted /\ futures[j] # "pending")
      => LET after == cancelJob([St EXCEPT !.jobs[j].aborted = TRUE], j) IN
         /\ after.metrics = metrics
         /\ after.queue = queue
         /\ after.workerJobMap = workerJobMap
         /\ after.workers = workers

\* A job that waits in the queue has no armed timer, and an armed timer
\* belongs to a job with a timeout.
C32Unarmed ==
  \A j \in DOMAIN jobs :
    /\ QueueCount(queue, j) > 0 => jobs[j].timer = NoWorker
    /\ jobs[j].timer # NoWorker => jobs[j].timeout > 0

\* A step arms a timer only for a job it binds, on the worker it binds it
\* to, and rejects no waiting job with the timeout error.
C32Step ==
  \A j \in DOMAIN jobs' :
    /\ (jobs'[j].timer # NoWorker
          /\ (j \notin DOMAIN jobs \/ jobs[j].timer # jobs'[j].timer))
         => MapGet(workerJobMap', jobs'[j].timer) = j
    /\ (j \in DOMAIN jobs /\ QueueCount(queue, j) > 0
          /\ futures[j] # "TimeoutError")
         => futures'[j] # "TimeoutError"

(* C32: the timeout clock starts at dispatch: a timer is armed only when   *)
(* runJob binds the job to a worker, and only for a timeout greater than   *)
(* zero; a job waiting in the queue, one re-queued by a worker restart     *)
(* included, has no armed timer and is never rejected with the timeout     *)
(* error while it waits.                                                   *)
C32Thm == [](C32Unarmed) /\ [][C32Step]_vars

\* The first job, which has a timeout and ran on a worker, waits in the
\* queue again without a timer after a restart of its worker.
C32Witness ==
  /\ 1 \in DOMAIN jobs
  /\ jobs[1].timeout > 0
  /\ QueueCount(queue, 1) = 1
  /\ jobs[1].timer = NoWorker
  /\ futures[1] = "pending"
  /\ metrics.workerRestarts > 0

\* The call delivers exactly one rejection, of the given kind, and does
\* nothing else.
C33RejectedWith(options, valid, kind) ==
  thread(St, options, valid) = [St EXCEPT !.futures = Append(futures, kind)]

(* C33: the submission checks come in a fixed order, closing, then         *)
(* strict-mode validation, then the already aborted signal: a call on a    *)
(* closing pool gets the closing error even if it is invalid or its signal *)
(* is aborted, an invalid call with an aborted signal gets the validation  *)
(* error, and exactly one rejection is delivered.                          *)
C33Thm ==
  \A options \in OptionInputs \cup AbortedInputs, valid \in BOOLEAN :
    /\ closing => C33RejectedWith(options, valid, "ClosingError")
    /\ (~closing /\ config.strictMode /\ ~valid)
         => C33RejectedWith(options, valid, "ValidationError")
    /\ (~closing /\ (valid \/ ~config.strictMode)
          /\ options.signal = "aborted")
         => C33RejectedWith(options, valid, "AbortError")

\* An invalid call was rejected before close(), and a call made after it
\* was rejected with the closing error.
C33Witness ==
  /\ closing
  /\ futures = <<"ValidationError", "ClosingError">>

(* C34: an error event of a worker that has no bound job is recovered      *)
(* silently: no future is rejected, failedJobs is unchanged, the handle is *)
(* terminated and a fresh handle takes its index, and workerRestarts grows *)
(* by exactly one.                                                         *)
C34Thm ==
  \A w \in Range(workers) :
    (w \notin DOMAIN workerJobMap /\ threads[w].run # "dead")
      => LET after == onError(Crashed(w), w)
             index == FindIndex(workers, w)
         IN /\ after.futures = futures
            /\ \A j \in DOMAIN jobs : after.jobs[j].signals = jobs[j].signals
            /\ after.metrics.failedJobs = metrics.failedJobs
            /\ after.metrics.completedJobs = metrics.completedJobs
            /\ after.metrics.workerRestarts = metrics.workerRestarts + 1
            /\ after.threads[w].run = "dead"
            /\ after.workers[index] \notin DOMAIN threads
            /\ after.threads[after.workers[index]].run # "dead"
            /\ Len(after.workers) >= Len(workers)
            /\ \A i \in 1..Len(workers) :
                 i # index => after.workers[i] = workers[i]

\* A pool that never took a job has recovered from the crash of an idle
\* worker: the crashed handle carries the failure count of its error event,
\* and no failure of a job is counted.
C34Witness ==
  /\ Len(futures) = 0
  /\ metrics.failedJobs = 0
  /\ metrics.workerRestarts > 0
  /\ \E w \in Range(workers) :
       workerState[w].failureCount = 1 /\ threads[w].run = "dead"

(* C35: a message from a worker that has no entry in the worker-to-job map *)
(* (a late response of a worker whose job timed out, for one) is ignored:  *)
(* onMessage changes no future, no metric, no binding and no heartbeat,    *)
(* and dispatches nothing.                                                 *)
C35Thm ==
  \A w \in DOMAIN threads, message \in {"result", "error"} :
    w \notin DOMAIN workerJobMap
      => LET after == onMessage(St, w, message) IN
         /\ after.futures = futures
         /\ after.jobs = jobs
         /\ after.metrics = metrics
         /\ after.workerJobMap = workerJobMap
         /\ after.workerState = workerState
         /\ after.queue = queue
         /\ after.threads = threads
         /\ after.closeResolvers = closeResolvers

\* The response of a worker is still to be delivered after the timeout of
\* its job has unbound it.
C35Witness ==
  \E w \in Range(workers), j \in DOMAIN jobs :
    /\ w \notin DOMAIN workerJobMap
    /\ threads[w].out # "none"
    /\ futures[j] = "TimeoutError"

(* C36: work conservation: after every scheduler transition, if the queue  *)
(* is not empty then no worker of the workers vector is both healthy and   *)
(* unbound; no job waits while findAvailableWorker has a worker to give.   *)
C36Claim == ~PQIsEmpty(queue) => findAvailableWorker(St) = NoWorker

(* C37: no job is dispatched to a dead worker: after any sequence of       *)
(* restarts, the workers vector holds no terminated handle that is marked  *)
(* healthy and unbound, so every handle findAvailableWorker can return is  *)
(* a worker on which terminate has not been called.                        *)
C37Claim ==
  \A w \in Range(workers) :
    (workerState[w].isHealthy /\ w \notin DOMAIN workerJobMap)
      => threads[w].run # "dead"

\* The jobs the scheduler has completed.  Every recordJobComplete and
\* recordJobFailure call is made on behalf of one of them, next to the call
\* of its sink.
CompletedJobs == {j \in DOMAIN jobs : futures[j] # "pending"}

(* C38: no job is counted twice in the metrics: a job contributes at most  *)
(* once to completedJobs + failedJobs over its whole life, so the two      *)
(* counters together never exceed the number of completed jobs.            *)
C38Claim ==
  metrics.completedJobs + metrics.failedJobs <= Cardinality(CompletedJobs)

(* C39: terminate() is final for the worker set: the workers vector is     *)
(* empty only after terminate() (the constructor creates poolSize          *)
(* workers), and from then on no step creates a worker: size stays 0       *)
(* whatever is submitted and whatever worker event or timer arrives, on a  *)
(* pool with autoScale too.                                                *)
C39Claim == [][workers = <<>> => workers' = <<>>]_vars
=============================================================================
